---- MODULE Spec2Model ----
(***************************************************************************)
(* A model of the Copernicus Dataspace client (src/src/copernicus_api.py): *)
(* the parallel download manager download_all / download_by_id, the token  *)
(* provider _get_access_token, the query builder _build_query / query and  *)
(* the attribute filter filter_by_attributes.                              *)
(*                                                                         *)
(* Four specifications share the variables; each one drives one component  *)
(* and leaves the other components' variables at their idle values:        *)
(*   Spec        download_all over a product collection                    *)
(*   SpecToken   a caller of _get_access_token                             *)
(*   SpecQuery   a caller of query (which calls _build_query)              *)
(*   SpecFilter  a caller of filter_by_attributes                          *)
(***************************************************************************)
EXTENDS Integers, Sequences, FiniteSets, TLC

VARIABLES
    \* ---- download_all ----
    pc,             \* position of the caller inside download_all
    nprod,          \* len(products)
    threads,        \* the `threads` argument (0 stands for any falsy hint)
    cpus,           \* what cpu_count() returns
    show_progress,  \* the `show_progress` argument
    out_dir,        \* the `out_dir` argument
    threads_,       \* the local threads_ handed to ThreadPoolExecutor
    submitted,      \* how many products the for loop has submitted
    queue,          \* the executor's work queue (indices into products)
    task,           \* per product: the state of its download_worker call
    tokenReqs,      \* POSTs made to TOKEN_URL
    getReqs,        \* per product: GETs made to DOWNLOAD_URL
    pbar,           \* tqdm's counter n
    files,          \* paths opened for writing
    futures,        \* per product: what its Future holds
    \* ---- _get_access_token ----
    tokLog,         \* the calls made so far: response seen and result
    \* ---- query / _build_query ----
    qry,            \* the arguments, the build result and what was sent
    \* ---- filter_by_attributes ----
    flt             \* the arguments and the result

dlVars == <<pc, nprod, threads, cpus, show_progress, out_dir, threads_,
            submitted, queue, task, tokenReqs, getReqs, pbar, files, futures>>
vars == <<pc, nprod, threads, cpus, show_progress, out_dir, threads_,
          submitted, queue, task, tokenReqs, getReqs, pbar, files, futures,
          tokLog, qry, flt>>

\* ------------------------------------------------------------------ bounds
MaxProducts == 2
MaxThreads == 2
MaxCpu == 4
MaxTokenCalls == 2
MaxRows == 2

\* ------------------------------------------------------- program constants
\* threads: int=4
DefaultThreads == 4
\* cpu_count() - 2
ReservedCpus == 2

Min(a, b) == IF a <= b THEN a ELSE b

\* =================================================================
\* _get_access_token
\* =================================================================

\* What the identity endpoint can do with the POST: the transport fails
\* (requests.post raises), or a response arrives with a status and a body.
\* body: "token"    JSON object holding access_token
\*       "no_token" JSON object without access_token
\*       "not_json" not JSON at all
TokenStatuses == {200, 201, 302, 400, 401, 500}
TokenBodies == {"token", "no_token", "not_json"}
TokenResponses ==
    [transport : {"ConnectionError", "Timeout"}, status : {0}, body : {"none"}]
    \cup [transport : {"ok"}, status : TokenStatuses, body : TokenBodies]

\* Response.raise_for_status(): HTTPError for 4xx and 5xx, nothing otherwise.
RaiseForStatus(status) == status >= 400 /\ status < 600

\* r.json()["access_token"], evaluated after the try block
JsonAccessToken(body) ==
    CASE body = "token"    -> [raised |-> "", token |-> "bearer"]
      [] body = "no_token" -> [raised |-> "KeyError", token |-> ""]
      [] OTHER             -> [raised |-> "JSONDecodeError", token |-> ""]

\* One call of _get_access_token against response r: one POST, no loop.
\* Only requests.post and raise_for_status sit inside the try block.
GetAccessToken(r) ==
    IF r.transport # "ok" \/ RaiseForStatus(r.status)
    THEN [raised |-> "TokenGenerationError", token |-> "", posts |-> 1]
    ELSE [raised |-> JsonAccessToken(r.body).raised,
          token  |-> JsonAccessToken(r.body).token,
          posts  |-> 1]

\* =================================================================
\* download_by_id / download_all
\* =================================================================

\* products: row i has Id ProdId(i) and Name ProdName(i)
ProdNames == <<"P1", "P2", "P3", "P4", "P5">>
ProdIds == <<"a", "b", "c", "d", "e">>
ProdName(i) == ProdNames[i]
ProdId(i) == ProdIds[i]
Prods == 1..nprod

\* prod_ids = [(prod.Id, prod.Name) for _, prod in products.iterrows()]
prod_ids == [i \in Prods |-> <<ProdId(i), ProdName(i)>>]

ThreadHints == (0..MaxThreads) \cup {DefaultThreads}

\* PoolSize without the clamp to the number of products
PoolSizeNoClamp(hint, ncpu, n) ==
    IF hint # 0 THEN hint ELSE ncpu - ReservedCpus

\* threads_ = threads if threads else min(cpu_count() - 2, len(products))
PoolSize(hint, ncpu, n) ==
    IF hint # 0 THEN hint ELSE Min(ncpu - ReservedCpus, n)

\* out_file = out_dir / f"{prod_name}"
OutFile(dir, name) == <<dir, name>>

\* ZipPath without the extension
ZipPathNoExt(out_path) == out_path

\* open(str(out_path) + ".zip", "wb")
ZipPath(out_path) == Append(out_path, ".zip")

\* The status of the download endpoint's response; download_by_id never
\* looks at it.
DownloadStatuses == {200, 401}

IdleTask ==
    [pc |-> "new", runs |-> 0, status |-> 0, exc |-> "", updates |-> 0]

Running == {i \in Prods : task[i].pc \in {"token", "get", "write", "finally"}}

\* tqdm(total=len(products)) when show_progress; ThreadPoolExecutor(threads_)
\* raises ValueError for max_workers <= 0.
Begin ==
    /\ pc = "begin"
    /\ threads_' = PoolSize(threads, cpus, nprod)
    /\ pc' = IF threads_' <= 0 THEN "raised" ELSE "submit"
    /\ UNCHANGED <<nprod, threads, cpus, show_progress, out_dir, submitted,
                   queue, task, tokenReqs, getReqs, pbar, files, futures,
                   tokLog, qry, flt>>

\* executor.submit(download_worker, prod_id, prod_name), in collection order
Submit ==
    /\ pc = "submit"
    /\ submitted < nprod
    /\ submitted' = submitted + 1
    /\ queue' = Append(queue, submitted + 1)
    /\ task' = [task EXCEPT ![submitted + 1].pc = "queued"]
    /\ UNCHANGED <<pc, nprod, threads, cpus, show_progress, out_dir, threads_,
                   tokenReqs, getReqs, pbar, files, futures, tokLog, qry, flt>>

\* A pool thread takes the next work item; at most threads_ items run at once.
WorkerTake ==
    /\ pc = "submit"
    /\ queue # <<>>
    /\ Cardinality(Running) < threads_
    /\ task' = [task EXCEPT ![Head(queue)].pc = "token",
                            ![Head(queue)].runs = @ + 1]
    /\ queue' = Tail(queue)
    /\ UNCHANGED <<pc, nprod, threads, cpus, show_progress, out_dir, threads_,
                   submitted, tokenReqs, getReqs, pbar, files, futures,
                   tokLog, qry, flt>>

\* DbiToken with one token kept for the batch: only the first download asks
\* the identity endpoint, the later ones reuse its answer.
DbiTokenShared(i) ==
    /\ task[i].pc = "token"
    /\ IF tokenReqs = 0
       THEN \E r \in TokenResponses :
              LET res == GetAccessToken(r) IN
                /\ tokenReqs' = tokenReqs + res.posts
                /\ task' = [task EXCEPT
                              ![i].exc = res.raised,
                              ![i].pc = IF res.raised = "" THEN "get" ELSE "finally"]
       ELSE /\ tokenReqs' = tokenReqs
            /\ task' = [task EXCEPT ![i].pc = "get"]
    /\ UNCHANGED <<pc, nprod, threads, cpus, show_progress, out_dir, threads_,
                   submitted, queue, getReqs, pbar, files, futures,
                   tokLog, qry, flt>>

\* download_by_id: access_token = self._get_access_token()
DbiToken(i) ==
    /\ task[i].pc = "token"
    /\ \E r \in TokenResponses :
         LET res == GetAccessToken(r) IN
           /\ tokenReqs' = tokenReqs + res.posts
           /\ task' = [task EXCEPT
                         ![i].exc = res.raised,
                         ![i].pc = IF res.raised = "" THEN "get" ELSE "finally"]
    /\ UNCHANGED <<pc, nprod, threads, cpus, show_progress, out_dir, threads_,
                   submitted, queue, getReqs, pbar, files, futures,
                   tokLog, qry, flt>>

\* download_by_id: response = session.get(url, headers=headers, stream=True).
\* The GET raises on a transport failure; a response of any status is kept.
DbiGet(i) ==
    /\ task[i].pc = "get"
    /\ getReqs' = [getReqs EXCEPT ![i] = @ + 1]
    /\ \/ task' = [task EXCEPT ![i].exc = "ConnectionError",
                               ![i].pc = "finally"]
       \/ \E s \in DownloadStatuses :
            task' = [task EXCEPT ![i].status = s, ![i].pc = "write"]
    /\ UNCHANGED <<pc, nprod, threads, cpus, show_progress, out_dir, threads_,
                   submitted, queue, tokenReqs, pbar, files, futures,
                   tokLog, qry, flt>>

\* download_by_id: open the .zip and write the chunks of the response body.
\* open() may raise OSError (no file); iter_content may raise once the file
\* is open (a partial file stays); otherwise the body, whatever the status,
\* is written and download_by_id returns None.
DbiWrite(i) ==
    /\ task[i].pc = "write"
    /\ \/ /\ task' = [task EXCEPT ![i].exc = "OSError", ![i].pc = "finally"]
          /\ files' = files
       \/ /\ task' = [task EXCEPT ![i].exc = "ChunkedEncodingError",
                                  ![i].pc = "finally"]
          /\ files' = files \cup {ZipPath(OutFile(out_dir, prod_ids[i][2]))}
       \/ /\ task' = [task EXCEPT ![i].pc = "finally"]
          /\ files' = files \cup {ZipPath(OutFile(out_dir, prod_ids[i][2]))}
    /\ UNCHANGED <<pc, nprod, threads, cpus, show_progress, out_dir, threads_,
                   submitted, queue, tokenReqs, getReqs, pbar, futures,
                   tokLog, qry, flt>>

\* What download_worker leaves in its Future: None when download_by_id
\* returned, else Exception("'<class>': Failed to download <name>: <e>").
WorkerResult(i) ==
    IF task[i].exc = ""
    THEN [state |-> "returned", name |-> "", cause |-> ""]
    ELSE [state |-> "raised", name |-> prod_ids[i][2], cause |-> task[i].exc]

\* PbarUpdates as an else clause: the bar advances for a success only
PbarUpdatesOnSuccess(i) == IF show_progress /\ task[i].exc = "" THEN 1 ELSE 0

\* finally: if show_progress: pbar.update(1). The update is one step of the
\* tqdm library; without show_progress there is no bar to advance.
PbarUpdates(i) == IF show_progress THEN 1 ELSE 0

\* WorkerFinally with a failure shutting the pool down: the work items still
\* queued are dropped.
WorkerFinallyAbort(i) ==
    /\ task[i].pc = "finally"
    /\ pbar' = pbar + PbarUpdates(i)
    /\ futures' = [futures EXCEPT ![i] = WorkerResult(i)]
    /\ task' = [task EXCEPT ![i].pc = "done", ![i].updates = @ + PbarUpdates(i)]
    /\ queue' = IF task[i].exc = "" THEN queue ELSE <<>>
    /\ UNCHANGED <<pc, nprod, threads, cpus, show_progress, out_dir, threads_,
                   submitted, tokenReqs, getReqs, files, tokLog, qry, flt>>

\* download_worker's except / finally, then the Future is set.
WorkerFinally(i) ==
    /\ task[i].pc = "finally"
    /\ pbar' = pbar + PbarUpdates(i)
    /\ futures' = [futures EXCEPT ![i] = WorkerResult(i)]
    /\ task' = [task EXCEPT ![i].pc = "done", ![i].updates = @ + PbarUpdates(i)]
    /\ UNCHANGED <<pc, nprod, threads, cpus, show_progress, out_dir, threads_,
                   submitted, queue, tokenReqs, getReqs, files, tokLog, qry, flt>>

\* Leaving the `with` block: shutdown(wait=True) returns once every submitted
\* work item has run; the Futures were never kept, so nothing is re-raised.
\* Then pbar.close() and download_all returns None.
ExitWith ==
    /\ pc = "submit"
    /\ submitted = nprod
    /\ queue = <<>>
    /\ \A i \in Prods : task[i].pc = "done"
    /\ pc' = "done"
    /\ UNCHANGED <<nprod, threads, cpus, show_progress, out_dir, threads_,
                   submitted, queue, task, tokenReqs, getReqs, pbar, files,
                   futures, tokLog, qry, flt>>

\* What the caller of download_all gets back: the function has no return
\* statement and re-raises nothing.
CallerReceives == {}

IdleToken == <<>>
IdleQuery == [st |-> "idle"]
IdleFilter == [st |-> "idle"]

Init ==
    /\ pc = "begin"
    /\ nprod \in 1..MaxProducts
    /\ threads \in ThreadHints
    /\ cpus \in 1..MaxCpu
    /\ show_progress \in BOOLEAN
    /\ out_dir = "out"
    /\ threads_ = 0
    /\ submitted = 0
    /\ queue = <<>>
    /\ task = [i \in 1..nprod |-> IdleTask]
    /\ tokenReqs = 0
    /\ getReqs = [i \in 1..nprod |-> 0]
    /\ pbar = 0
    /\ files = {}
    /\ futures = [i \in 1..nprod |-> [state |-> "pending", name |-> "", cause |-> ""]]
    /\ tokLog = IdleToken
    /\ qry = IdleQuery
    /\ flt = IdleFilter

Next ==
    \/ Begin
    \/ Submit
    \/ WorkerTake
    \/ \E i \in Prods : DbiToken(i)
    \/ \E i \in Prods : DbiGet(i)
    \/ \E i \in Prods : DbiWrite(i)
    \/ \E i \in Prods : WorkerFinally(i)
    \/ ExitWith

Spec == Init /\ [][Next]_vars

\* =================================================================
\* Properties of download_all (checked under Spec)
\* =================================================================

Failed(i) == task[i].pc \in {"finally", "done"} /\ task[i].exc # ""
Succeeded(i) == task[i].pc \in {"finally", "done"} /\ task[i].exc = ""
PastToken(i) == task[i].pc \in {"get", "write", "finally", "done"}

C2_FailureIsolation ==
    /\ (\E i \in Prods : Failed(i)) => pc \in {"submit", "done"}
    /\ pc = "submit" => ENABLED Next
    /\ pc = "done" =>
         \A i \in Prods :
            /\ task[i].runs = 1
            /\ task[i].pc = "done"
            /\ futures[i].state = (IF task[i].exc = "" THEN "returned" ELSE "raised")

C2_Witness ==
    /\ pc = "done"
    /\ \E i, j \in Prods :
         /\ i < j
         /\ futures[i].state = "raised"
         /\ futures[j].state = "returned"

\* C3: every product's download is executed exactly once and advances the
\* progress bar (when there is one, i.e. show_progress) exactly once; when
\* download_all returns, the finished tasks, successes plus failures, number
\* N and so does the bar's counter.
C3_ExactlyOnce ==
    /\ \A i \in Prods : task[i].runs <= 1 /\ task[i].updates <= 1
    /\ pbar <= Cardinality({i \in Prods : task[i].pc = "done"})
    /\ pc = "done" =>
         /\ \A i \in Prods : task[i].runs = 1
         /\ Cardinality({i \in Prods : Succeeded(i)})
              + Cardinality({i \in Prods : Failed(i)}) = nprod
         /\ show_progress =>
              /\ pbar = nprod
              /\ \A i \in Prods : task[i].updates = 1

C3_Witness ==
    /\ pc = "done"
    /\ show_progress
    /\ nprod >= 2
    /\ threads_ >= 2
    /\ \E i, j \in Prods : Failed(i) /\ Succeeded(j)
    /\ pbar = nprod

\* C4: once the pool has drained, the caller of download_all receives, for
\* every failed task, a failure record naming the product and the cause.
C4_FailuresReported ==
    pc = "done" =>
      \A i \in Prods :
         Failed(i) =>
           \E rec \in CallerReceives :
              rec.name = ProdName(i) /\ rec.cause = task[i].exc

\* C5: download_by_id ends in an error whenever the download endpoint answers
\* with a non-success status, and the request is made once.
C5_NonSuccessAborts ==
    \A i \in Prods :
       /\ getReqs[i] <= 1
       /\ (task[i].pc \in {"finally", "done"} /\ task[i].status # 0
             /\ task[i].status \notin 200..299)
            => task[i].exc # ""

\* C9: when every single download returned normally, the files written by
\* download_all are exactly out_dir/<Name>.zip for the products of the
\* collection.
C9_ExactlyTheZips ==
    /\ files \subseteq {<<out_dir, ProdName(i), ".zip">> : i \in Prods}
    /\ (pc = "done" /\ \A i \in Prods : futures[i].state = "returned") =>
         files = {<<out_dir, ProdName(i), ".zip">> : i \in Prods}

C9_Witness ==
    /\ pc = "done"
    /\ nprod >= 2
    /\ \A i \in Prods : futures[i].state = "returned" /\ task[i].status = 200
    /\ files = {<<"out", "P1", ".zip">>, <<"out", "P2", ".zip">>}

\* C10 (as stated): the size of the pool that is created never exceeds N,
\* whether the hint is supplied or left to its default.
C10_PoolNeverExceedsN == pc \in {"submit", "done"} => threads_ <= nprod

\* C10 (amended): a non-zero hint, the default of 4 included, is the pool
\* size as it is; only a zero (falsy) hint gives cpu_count() - 2 clamped to
\* at most N.
C10_PoolSize ==
    pc # "begin" =>
      /\ threads # 0 => threads_ = threads
      /\ threads = 0 =>
           /\ threads_ <= nprod
           /\ threads_ <= cpus - 2
           /\ threads_ = nprod \/ threads_ = cpus - 2

C10_Witness ==
    /\ pc = "done"
    /\ threads = 0
    /\ cpus - 2 > nprod
    /\ threads_ = nprod

\* The download variables while another component is driven
DlIdle ==
    /\ pc = "idle"
    /\ nprod = 0
    /\ threads = 0
    /\ cpus = 0
    /\ show_progress = FALSE
    /\ out_dir = ""
    /\ threads_ = 0
    /\ submitted = 0
    /\ queue = <<>>
    /\ task = <<>>
    /\ tokenReqs = 0
    /\ getReqs = <<>>
    /\ pbar = 0
    /\ files = {}
    /\ futures = <<>>

\* =================================================================
\* A caller of _get_access_token (SpecToken)
\* =================================================================

\* One call: the endpoint's answer r and what _get_access_token made of it
TokenCall ==
    /\ Len(tokLog) < MaxTokenCalls
    /\ \E r \in TokenResponses :
         tokLog' = Append(tokLog, [resp |-> r, res |-> GetAccessToken(r)])
    /\ UNCHANGED <<dlVars, qry, flt>>

InitToken == DlIdle /\ tokLog = IdleToken /\ qry = IdleQuery /\ flt = IdleFilter

NextToken == TokenCall

SpecToken == InitToken /\ [][NextToken]_vars

\* C6: every failing outcome of the credential exchange (transport failure,
\* non-2xx status, 2xx with a body that is not JSON or lacks access_token)
\* ends in TokenGenerationError and in no other error; a token is returned
\* only for a 2xx response that holds access_token; one request per call.
C6_OnlyTokenGenerationError ==
    \A k \in DOMAIN tokLog :
       LET r == tokLog[k].resp
           res == tokLog[k].res
           good == r.transport = "ok" /\ r.status \in 200..299 /\ r.body = "token"
       IN /\ res.posts = 1
          /\ ~good => res.raised = "TokenGenerationError"
          /\ res.raised = "" => good

\* =================================================================
\* _build_query / query (SpecQuery)
\* =================================================================

\* The concrete classes and their two properties
Classes ==
    {"Sentinel1API", "Sentinel2API", "Sentinel3API", "Sentinel5API", "Sentinel6API"}

mission(cls) ==
    CASE cls = "Sentinel1API" -> "SENTINEL-1"
      [] cls = "Sentinel2API" -> "SENTINEL-2"
      [] cls = "Sentinel3API" -> "SENTINEL-3"
      [] cls = "Sentinel5API" -> "SENTINEL-5P"
      [] cls = "Sentinel6API" -> "SENTINEL-3"

prod_types(cls) ==
    CASE cls = "Sentinel1API" ->
           <<"RAW", "SLC", "GRD", "GRDH", "GRDM", "OCN", "IW", "EW">>
      [] cls = "Sentinel2API" -> <<"L1C", "L2A">>
      [] cls = "Sentinel3API" ->
           <<"OL_1", "OL_2", "SL_1", "SL_2", "SR_1", "SR_2", "SR", "SY_2">>
      [] cls = "Sentinel5API" ->
           <<"L1B_RA_BD1", "L1B_RA_BD2", "L1B_RA_BD3", "L1B_RA_BD4",
             "L1B_RA_BD5", "L1B_RA_BD6", "L1B_RA_BD7", "L1B_RA_BD8",
             "L2__AER_AI", "L2__AER_LH", "L2__CH4", "L2__CLOUD", "L2__CO",
             "L2__HCHO", "L2__NO2", "L2__NP_BD3", "L2__NP_BD6", "L2__NP_BD7",
             "L2__O3_TCL", "L2__O3__PR", "L2__O3", "L2__SO2">>
      [] cls = "Sentinel6API" -> <<"MW_2__AMR", "P4_1B_LR", "P4_2__LR">>

Elems(seq) == {seq[k] : k \in DOMAIN seq}

\* An optional argument: None, or a value (a string may be empty, a number 0)
None == [some |-> FALSE, v |-> ""]
Some(x) == [some |-> TRUE, v |-> x]
NoneInt == [some |-> FALSE, v |-> 0]

\* Python truthiness of `str | None` and of `int | None`
TruthyStr(o) == o.some /\ o.v # ""
TruthyInt(o) == o.some /\ o.v # 0

\* The query string, kept as the list of the pieces appended to it
Clause(k, v) == [k |-> k, v |-> v]

\* _build_query past the membership test: the pieces in the order the code
\* appends them
QueryPieces(cls, a) ==
        <<Clause("Name eq", mission(cls)),
          Clause("ContentDate/Start gt", a.start_time),
          Clause("ContentDate/Start lt", a.end_time)>>
        \o (IF TruthyStr(a.prod_type)
            THEN <<Clause("contains", a.prod_type.v)>> ELSE <<>>)
        \o (IF TruthyStr(a.exclude)
            THEN <<Clause("not contains", a.exclude.v)>> ELSE <<>>)
        \o (IF TruthyStr(a.footprint)
            THEN <<Clause("OData.CSC.Intersects", a.footprint.v)>> ELSE <<>>)
        \o (IF TruthyStr(a.orderby)
            THEN <<Clause("$orderby", a.orderby.v)>> ELSE <<>>)
        \o (IF TruthyInt(a.limit)
            THEN <<Clause("$top", a.limit.v)>> ELSE <<>>)
        \o <<Clause("$expand", "Attributes")>>

\* _build_query with the membership test left out
BuildQueryUnchecked(cls, a) ==
    [raised |-> "", valid |-> <<>>, query_str |-> QueryPieces(cls, a)]

\* _build_query: ValueError, whose message lists self.prod_types, for a
\* truthy prod_type outside them; else the query string.
BuildQuery(cls, a) ==
    IF TruthyStr(a.prod_type) /\ a.prod_type.v \notin Elems(prod_types(cls))
    THEN [raised |-> "ValueError", valid |-> prod_types(cls), query_str |-> <<>>]
    ELSE [raised |-> "", valid |-> <<>>, query_str |-> QueryPieces(cls, a)]

ProdTypeArgs ==
    {None, Some(""), Some("XYZ")}
    \cup {Some(t) : t \in UNION {Elems(prod_types(c)) : c \in Classes}}

QueryArgs ==
    [start_time : {"2023-01-01"},
     end_time   : {"2023-01-15"},
     prod_type  : ProdTypeArgs,
     exclude    : {None, Some("COG")},
     footprint  : {None, Some("POLYGON((40 -20, 40 -15, 30 -15, 30 -20, 40 -20))")},
     orderby    : {None, Some("asc")},
     limit      : {NoneInt, Some(0), Some(5)}]

\* query(): query_str = self._build_query(...); a ValueError leaves query()
\* before anything is sent.
QueryBuild ==
    /\ qry.st = "called"
    /\ LET b == BuildQuery(qry.cls, qry.args) IN
         qry' = [qry EXCEPT !.st = IF b.raised = "" THEN "built" ELSE "raised",
                            !.built = b]
    /\ UNCHANGED <<dlVars, tokLog, flt>>

\* query(): requests.get(query_str, timeout=100).json(); any exception
\* becomes QueryError.
QuerySend ==
    /\ qry.st = "built"
    /\ \E ok \in BOOLEAN :
         qry' = [qry EXCEPT !.st = IF ok THEN "returned" ELSE "QueryError",
                            !.sent = Append(@, qry.built.query_str)]
    /\ UNCHANGED <<dlVars, tokLog, flt>>

InitQuery ==
    /\ DlIdle
    /\ tokLog = IdleToken
    /\ flt = IdleFilter
    /\ \E c \in Classes, a \in QueryArgs :
         qry = [st |-> "called", cls |-> c, args |-> a,
                built |-> [raised |-> "", valid |-> <<>>, query_str |-> <<>>],
                sent |-> <<>>]

NextQuery ==
    \/ QueryBuild
    \/ QuerySend

SpecQuery == InitQuery /\ [][NextQuery]_vars

TypeClauses(q) == {k \in DOMAIN q : q[k].k = "contains"}

\* C7: for every mission and every requested (truthy) product type: one that
\* is not among the mission's product types gives an error carrying the valid
\* list and no query string is produced or sent; a valid one gives exactly
\* one contains(Name, '<type>') piece; when none is requested there is no
\* product-type piece.
C7_ProductType ==
    qry.st # "called" =>
      LET pt == qry.args.prod_type
          q == qry.built.query_str
          valid == prod_types(qry.cls)
      IN /\ (TruthyStr(pt) /\ pt.v \notin Elems(valid)) =>
              /\ qry.st = "raised"
              /\ qry.built.raised = "ValueError"
              /\ qry.built.valid = valid
              /\ q = <<>>
              /\ qry.sent = <<>>
         /\ (TruthyStr(pt) /\ pt.v \in Elems(valid)) =>
              /\ qry.built.raised = ""
              /\ Cardinality(TypeClauses(q)) = 1
              /\ \A k \in TypeClauses(q) : q[k].v = pt.v
              /\ \A k \in DOMAIN qry.sent : qry.sent[k] = q
         /\ ~TruthyStr(pt) =>
              /\ qry.built.raised = ""
              /\ TypeClauses(q) = {}

C7_Witness ==
    /\ qry.st = "raised"
    /\ qry.cls = "Sentinel2API"
    /\ qry.args.prod_type = Some("GRD")
    /\ qry.built.valid = <<"L1C", "L2A">>

\* The catalog identifier each client is documented to serve: the class
\* docstring's list of supported missions and each subclass's own docstring
SupportedMission(cls) ==
    CASE cls = "Sentinel1API" -> "SENTINEL-1"
      [] cls = "Sentinel2API" -> "SENTINEL-2"
      [] cls = "Sentinel3API" -> "SENTINEL-3"
      [] cls = "Sentinel5API" -> "SENTINEL-5P"
      [] cls = "Sentinel6API" -> "SENTINEL-6"

\* C11: every built query string starts from Name eq '<identifier>' with the
\* identifier of the client's own mission (SENTINEL-6 for the Sentinel-6
\* client), and no other mission's client builds the same mission predicate.
C11_OwnIdentifier ==
    qry.st \in {"built", "returned", "QueryError"} =>
      LET q == qry.built.query_str IN
        /\ q # <<>>
        /\ q[1] = Clause("Name eq", SupportedMission(qry.cls))
        /\ \A c \in Classes \ {qry.cls} :
              QueryPieces(c, qry.args)[1] # q[1]

\* =================================================================
\* filter_by_attributes (SpecFilter)
\* =================================================================

\* A DataFrame: its attribute columns and its rows in order. A cell is a
\* value or NaN (the product does not carry the attribute); a column that the
\* frame lacks has no cells, kept as NaN in the row records.
NaNCell == [nan |-> TRUE, v |-> 0]
NaNStr == [nan |-> TRUE, v |-> ""]
Cell(x) == [nan |-> FALSE, v |-> x]

CloudValues == {0, 10, 20}
OrbitValues == {"ASCENDING", "DESCENDING"}
AttrColumns == {"cloudCover", "orbitDirection"}

RowsOf(cols, n) ==
    [1..n -> [Id : {0},
              cloudCover : IF "cloudCover" \in cols
                           THEN {NaNCell} \cup {Cell(x) : x \in CloudValues}
                           ELSE {NaNCell},
              orbitDirection : IF "orbitDirection" \in cols
                               THEN {NaNStr} \cup {Cell(x) : x \in OrbitValues}
                               ELSE {NaNStr}]]

\* Row k carries Id k, so that order and identity of rows can be told
Numbered(rows) == [k \in DOMAIN rows |-> [rows[k] EXCEPT !.Id = k]]

DataFrames ==
    UNION {{[cols |-> c, rows |-> Numbered(r)] : r \in RowsOf(c, n)} :
             c \in SUBSET AttrColumns, n \in 0..MaxRows}

\* Comparisons with NaN are False
Ge(cell, m) == ~cell.nan /\ cell.v >= m
Le(cell, m) == ~cell.nan /\ cell.v <= m
Gt(cell, m) == ~cell.nan /\ cell.v > m

RECURSIVE Keep(_, _, _, _)
\* prod_df[mask]: the rows whose mask entry is True, in order
Keep(rows, mask, k, acc) ==
    IF k > Len(rows) THEN acc
    ELSE Keep(rows, mask, k + 1, IF mask[k] THEN Append(acc, rows[k]) ELSE acc)

\* filter_by_cloud_cover with an exclusive lower bound
FilterByCloudCoverExclusive(df, min_cover, max_cover) ==
    IF "cloudCover" \notin df.cols
    THEN [raised |-> "AttributeNotFoundError", attr |-> "cloudCover", df |-> df]
    ELSE [raised |-> "", attr |-> "",
          df |-> [df EXCEPT !.rows =
                    Keep(df.rows,
                         [k \in DOMAIN df.rows |->
                            Gt(df.rows[k].cloudCover, min_cover)
                            /\ Le(df.rows[k].cloudCover, max_cover)],
                         1, <<>>)]]

\* filter_by_cloud_cover: KeyError (no such column) -> AttributeNotFoundError
filter_by_cloud_cover(df, min_cover, max_cover) ==
    IF "cloudCover" \notin df.cols
    THEN [raised |-> "AttributeNotFoundError", attr |-> "cloudCover", df |-> df]
    ELSE [raised |-> "", attr |-> "",
          df |-> [df EXCEPT !.rows =
                    Keep(df.rows,
                         [k \in DOMAIN df.rows |->
                            Ge(df.rows[k].cloudCover, min_cover)
                            /\ Le(df.rows[k].cloudCover, max_cover)],
                         1, <<>>)]]

\* Series.isin(values)
IsIn(cell, values) == ~cell.nan /\ cell.v \in Elems(values)

\* _filter_by_attrs: KeyError (no such column) -> AttributeNotFoundError
filter_by_attrs(df, attribute, values) ==
    IF attribute \notin df.cols
    THEN [raised |-> "AttributeNotFoundError", attr |-> attribute, df |-> df]
    ELSE [raised |-> "", attr |-> "",
          df |-> [df EXCEPT !.rows =
                    Keep(df.rows,
                         [k \in DOMAIN df.rows |->
                            IsIn(df.rows[k][attribute], values)],
                         1, <<>>)]]

RECURSIVE filter_by_attributes(_, _)
\* filter_by_attributes: the entries of kwargs in order, each applied to the
\* frame the previous one left; the first error ends the call.
filter_by_attributes(df, kwargs) ==
    IF kwargs = <<>> THEN [raised |-> "", attr |-> "", df |-> df]
    ELSE LET key == Head(kwargs).key
             val == Head(kwargs).val
             step == IF key = "cloudCover"
                     THEN IF Len(val) # 2
                          THEN [raised |-> "ValueError", attr |-> key, df |-> df]
                          ELSE filter_by_cloud_cover(df, val[1], val[2])
                     ELSE filter_by_attrs(df, key, val)
         IN IF step.raised # "" THEN step
            ELSE filter_by_attributes(step.df, Tail(kwargs))

\* The value lists the caller may pass
CloudRanges ==
    {<<a, b>> : a \in CloudValues, b \in CloudValues}
    \cup {<<10>>, <<0, 10, 20>>}
OrbitLists == {<<>>, <<"ASCENDING">>, <<"DESCENDING">>, <<"ASCENDING", "DESCENDING">>}

Entries ==
    {[key |-> "cloudCover", val |-> v] : v \in CloudRanges}
    \cup {[key |-> "orbitDirection", val |-> v] : v \in OrbitLists}

\* **kwargs: keyword arguments in call order, no keyword twice
Kwargs ==
    {<<>>} \cup {<<e>> : e \in Entries}
    \cup {p \in Entries \X Entries : p[1].key # p[2].key}

FilterCall ==
    /\ flt.st = "called"
    /\ LET res == filter_by_attributes(flt.prod_df, flt.kwargs) IN
         flt' = [flt EXCEPT !.st = IF res.raised = "" THEN "returned" ELSE "raised",
                            !.res = res]
    /\ UNCHANGED <<dlVars, tokLog, qry>>

InitFilter ==
    /\ DlIdle
    /\ tokLog = IdleToken
    /\ qry = IdleQuery
    /\ \E d \in DataFrames, kw \in Kwargs :
         flt = [st |-> "called", prod_df |-> d, kwargs |-> kw,
                res |-> [raised |-> "", attr |-> "", df |-> d]]

NextFilter == FilterCall

SpecFilter == InitFilter /\ [][NextFilter]_vars

\* Whether a row satisfies one filter entry, read off the claim: cloudCover
\* within [min, max], both ends included; any other attribute among the values
Satisfies(row, e) ==
    IF e.key = "cloudCover"
    THEN /\ ~row.cloudCover.nan
         /\ e.val[1] <= row.cloudCover.v
         /\ row.cloudCover.v <= e.val[2]
    ELSE /\ ~row[e.key].nan
         /\ \E k \in DOMAIN e.val : e.val[k] = row[e.key].v

SatisfiesAll(row) == \A k \in DOMAIN flt.kwargs : Satisfies(row, flt.kwargs[k])

\* C8: what filter_by_attributes returns is exactly the rows of the input
\* that satisfy every filter entry, in input order; a row failing an entry is
\* not in the result.
C8_FilterExact ==
    flt.st = "returned" =>
      /\ flt.res.df.rows = SelectSeq(flt.prod_df.rows, SatisfiesAll)
      /\ flt.res.df.cols = flt.prod_df.cols
      /\ \A k \in DOMAIN flt.res.df.rows : SatisfiesAll(flt.res.df.rows[k])

C8_Witness ==
    /\ flt.st = "returned"
    /\ Len(flt.kwargs) = 2
    /\ flt.kwargs[1] = [key |-> "cloudCover", val |-> <<10, 20>>]
    /\ Len(flt.prod_df.rows) = 2
    /\ flt.prod_df.rows[1].cloudCover = Cell(10)
    /\ flt.prod_df.rows[2].orbitDirection = Cell("DESCENDING")
    /\ flt.kwargs[2].val = <<"ASCENDING">>
    /\ Len(flt.res.df.rows) = 1
    /\ flt.res.df.rows[1].Id = 1

====
